---------------------------- MODULE Spec2Model ----------------------------
(***************************************************************************)
(* A model of the two MCPTool -> @mcp_tool converters:                     *)
(*   src/convert_mcprepl_tools.py  (convert_file and its __main__ block)   *)
(*   src/convert_tools.py          (convert_tool and main)                 *)
(* A Document is a sequence of one-character strings.  The two regular     *)
(* expressions of each script are modelled by what Python's re module does *)
(* with them: a leftmost match at each start position, greedy quantifiers  *)
(* with backtracking, and re.sub's left-to-right non-overlapping scan.     *)
(* The characters are ASCII: \w and \s are the ASCII members of Python's   *)
(* classes.                                                                *)
(***************************************************************************)
EXTENDS Integers, Sequences, FiniteSets, TLC

VARIABLES
    script,     \* which of the two scripts runs
    argv,       \* sys.argv[1:], a sequence of paths
    fs,         \* the file system: path -> [mode, text]
    pc,         \* the position of the run
    content,    \* the local `content`
    converted,  \* the local `converted` / `new_content`
    stdout,     \* the lines printed
    events,     \* the I/O and pass events of the run, in order
    texts,      \* pass harness: the input and the text after each pass
    passes      \* pass harness: the passes applied, in order

vars == <<script, argv, fs, pc, content, converted, stdout, events, texts, passes>>

Scripts == {"convert_mcprepl_tools", "convert_tools"}

(***************************************************************************)
(* Character classes of Python's re on the characters of the model.        *)
(***************************************************************************)
NL == "\n"

Quote == "\""

\* \w
WordChars ==
    {"a", "b", "c", "d", "e", "f", "g", "h", "i", "j", "k", "l", "m",
     "n", "o", "p", "q", "r", "s", "t", "u", "v", "w", "x", "y", "z",
     "A", "B", "C", "D", "E", "F", "G", "H", "I", "J", "K", "L", "M",
     "N", "O", "P", "Q", "R", "S", "T", "U", "V", "W", "X", "Y", "Z",
     "0", "1", "2", "3", "4", "5", "6", "7", "8", "9", "_"}

\* \s
SpaceChars == {" ", "\t", "\n", "\r", "\f"}

\* the literal  MCPTool\(
MCPToolLit == <<"M", "C", "P", "T", "o", "o", "l", "(">>

\* the literal tail of (\w+_tool)
ToolSuffix == <<"_", "t", "o", "o", "l">>

\* the literal " = " of convert_tools' pattern
SpacedEq == <<" ", "=", " ">>

\* the literal  end
EndLit == <<"e", "n", "d">>

\* ' = @mcp_tool(:' of both replacement f-strings
MacroOpen == <<" ", "=", " ", "@", "m", "c", "p", "_", "t", "o", "o", "l", "(", ":">>

\* ',\n        ' : what replacer puts after the symbol
FileTail == <<",", "\n", " ", " ", " ", " ", " ", " ", " ", " ">>

\* ', ' : what replace_func puts after the symbol
ToolTail == <<",", " ">>

\* '\n    )' : the fixed closing of convert_file's second replacement
FileClose == <<"\n", " ", " ", " ", " ", ")">>

(***************************************************************************)
(* Matching helpers.  Positions are 1-based; an end position is the index  *)
(* of the first character after the matched text.                          *)
(***************************************************************************)
HasAt(d, i, lit) ==
    /\ i >= 1
    /\ i + Len(lit) - 1 <= Len(d)
    /\ SubSeq(d, i, i + Len(lit) - 1) = lit

\* the end of the longest run of characters of class C starting at i (greedy X*)
RunEnd(d, i, C) ==
    CHOOSE j \in i..(Len(d) + 1) :
        /\ j > Len(d) \/ d[j] \notin C
        /\ \A k \in i..(j - 1) : d[k] \in C

\* the end of the longest run of characters other than c starting at i ([^c]*)
RunEndNot(d, i, c) ==
    CHOOSE j \in i..(Len(d) + 1) :
        /\ j > Len(d) \/ d[j] = c
        /\ \A k \in i..(j - 1) : d[k] # c

\* the position of the last line break in d[i .. j-1], 0 when there is none
LastNL(d, i, j) ==
    LET S == {k \in i..(j - 1) : d[k] = NL}
    IN  IF S = {} THEN 0 ELSE CHOOSE k \in S : \A l \in S : l <= k

NoMatch == [ok |-> FALSE, end |-> 0, var |-> <<>>, name |-> <<>>]

(***************************************************************************)
(* The tail both declaration patterns share, from position c on:           *)
(*     MCPTool\(\s*\n\s*"([^"]+)",\s*\n                                    *)
(* \s*\n\s* must cover a whole whitespace run (the quote that follows is   *)
(* no whitespace) holding a line break; [^"]+ runs to the next quote;      *)
(* the final \s*\n is greedy, so it ends after the run's last line break.  *)
(***************************************************************************)
PatternTail(d, c, var) ==
    IF ~HasAt(d, c, MCPToolLit) THEN NoMatch
    ELSE
    LET q == RunEnd(d, c + Len(MCPToolLit), SpaceChars)
        r == RunEndNot(d, q + 1, Quote)
        s == RunEnd(d, r + 2, SpaceChars)
        l == LastNL(d, r + 2, s)
    IN  IF /\ LastNL(d, c + Len(MCPToolLit), q) # 0
           /\ q <= Len(d) /\ d[q] = Quote
           /\ r > q + 1
           /\ r <= Len(d)
           /\ r + 1 <= Len(d) /\ d[r + 1] = ","
           /\ l # 0
        THEN [ok |-> TRUE, end |-> l + 1, var |-> var,
              name |-> SubSeq(d, q + 1, r - 1)]
        ELSE NoMatch

(***************************************************************************)
(* The match of a script's declaration pattern that starts at position i.  *)
(*   convert_mcprepl_tools:  (\w+)\s*=\s*MCPTool\( ...                     *)
(*   convert_tools:          (\w+_tool) = MCPTool\( ...                    *)
(* \w+ is followed by a non-word character in both, so it must take the    *)
(* whole word run that starts at i.                                        *)
(***************************************************************************)
pattern(s, d, i) ==
    LET a == RunEnd(d, i, WordChars)
        b == RunEnd(d, a, SpaceChars)
    IN  IF i > Len(d) \/ d[i] \notin WordChars THEN NoMatch
        ELSE IF s = "convert_mcprepl_tools"
        THEN IF b <= Len(d) /\ d[b] = "="
             THEN PatternTail(d, RunEnd(d, b + 1, SpaceChars), SubSeq(d, i, a - 1))
             ELSE NoMatch
        ELSE IF /\ a - i > Len(ToolSuffix)
                /\ HasAt(d, a - Len(ToolSuffix), ToolSuffix)
                /\ HasAt(d, a, SpacedEq)
             THEN PatternTail(d, a + Len(SpacedEq), SubSeq(d, i, a - 1))
             ELSE NoMatch

\* mutant of symbol_name: only the first hyphen is replaced
symbol_name_first(name) ==
    [k \in 1..Len(name) |->
        IF name[k] = "-" /\ (\A j \in 1..(k - 1) : name[j] # "-")
        THEN "_" ELSE name[k]]

\* tool_name.replace('-', '_')
symbol_name(name) ==
    [k \in 1..Len(name) |-> IF name[k] = "-" THEN "_" ELSE name[k]]

\* replacer / replace_func: the replacement text of one match
replacer(s, m) ==
    m.var \o MacroOpen \o symbol_name(m.name)
          \o (IF s = "convert_mcprepl_tools" THEN FileTail ELSE ToolTail)

(***************************************************************************)
(* re.sub(pattern, replacer, content): the text from `from` on.  The next  *)
(* match is the one at the least start position at or after `from`; the    *)
(* text before it is copied, and the scan goes on from the match's end.    *)
(***************************************************************************)
\* the least element of a non-empty set of positions
Least(S) == CHOOSE i \in S : \A k \in S : i <= k

RECURSIVE SubDeclarations(_, _, _)
SubDeclarations(s, d, from) ==
    LET S == {i \in from..Len(d) : pattern(s, d, i).ok}
    IN  IF S = {} THEN SubSeq(d, from, Len(d))
        ELSE LET i == Least(S)
                 m == pattern(s, d, i)
             IN  SubSeq(d, from, i - 1) \o replacer(s, m)
                     \o SubDeclarations(s, d, m.end)

\* mutant of Rewriter: only the first match is replaced (re.sub with count=1)
RewriterFirstOnly(s, d) ==
    LET S == {i \in 1..Len(d) : pattern(s, d, i).ok}
    IN  IF S = {} THEN d
        ELSE LET i == Least(S)
                 m == pattern(s, d, i)
             IN  SubSeq(d, 1, i - 1) \o replacer(s, m) \o SubSeq(d, m.end, Len(d))

\* the Declaration Rewriter: the first re.sub of each script
Rewriter(s, d) == SubDeclarations(s, d, 1)

(***************************************************************************)
(* The match of a script's trailing-comma pattern that starts at i.        *)
(*   convert_mcprepl_tools:  (\n\s+end),\s*\n\s*\)                         *)
(*   convert_tools:          (\n\s+end),\s*\n(\s*\))                      *)
(* `keep` is group 1; `nl` is the position of the line break the pattern's *)
(* second \n matches: both \s* are greedy, so it is the last line break of *)
(* the whitespace run between the comma and the parenthesis.               *)
(***************************************************************************)
NoClose == [ok |-> FALSE, end |-> 0, comma |-> 0, nl |-> 0]

closing(d, i) ==
    IF ~(i <= Len(d) /\ d[i] = NL) THEN NoClose
    ELSE
    LET a == RunEnd(d, i + 1, SpaceChars)
        c == a + Len(EndLit)
        e == RunEnd(d, c + 1, SpaceChars)
        l == LastNL(d, c + 1, e)
    IN  IF /\ a > i + 1
           /\ HasAt(d, a, EndLit)
           /\ c <= Len(d) /\ d[c] = ","
           /\ l # 0
           /\ e <= Len(d) /\ d[e] = ")"
        THEN [ok |-> TRUE, end |-> e + 1, comma |-> c, nl |-> l]
        ELSE NoClose

\* mutant of closing_repl: the comma is left inside group 1
closing_repl_comma(s, d, i, m) ==
    SubSeq(d, i, m.comma)
        \o (IF s = "convert_mcprepl_tools" THEN FileClose
            ELSE <<NL>> \o SubSeq(d, m.nl + 1, m.end - 1))

\* the replacement text of one trailing-comma match:
\*   convert_mcprepl_tools: r'\1\n    )'      convert_tools: r'\1\n\2'
closing_repl(s, d, i, m) ==
    SubSeq(d, i, m.comma - 1)
        \o (IF s = "convert_mcprepl_tools" THEN FileClose
            ELSE <<NL>> \o SubSeq(d, m.nl + 1, m.end - 1))

RECURSIVE SubClosings(_, _, _)
SubClosings(s, d, from) ==
    LET S == {i \in from..Len(d) : closing(d, i).ok}
    IN  IF S = {} THEN SubSeq(d, from, Len(d))
        ELSE LET i == Least(S)
                 m == closing(d, i)
             IN  SubSeq(d, from, i - 1) \o closing_repl(s, d, i, m)
                     \o SubClosings(s, d, m.end)

\* the Trailing-Comma Normalizer: the second re.sub of each script
Normalizer(s, d) == SubClosings(s, d, 1)

(***************************************************************************)
(* The Documents the runs are given: concatenations of a few fragments.    *)
(***************************************************************************)
MaxFrags == 3

MaxTokens == 5

MaxPasses == 2

\* 'tool = MCPTool(\n    "fetch-data",\n'
FetchDecl == <<"t", "o", "o", "l", " ", "=", " ", "M", "C", "P", "T", "o", "o", "l", "(", "\n", " ", " ", " ", " ", "\"", "f", "e", "t", "c", "h", "-", "d", "a", "t", "a", "\"", ",", "\n">>

\* '    body...\n'
BodyLine == <<" ", " ", " ", " ", "b", "o", "d", "y", ".", ".", ".", "\n">>

\* '    end,\n)'
EndClose == <<" ", " ", " ", " ", "e", "n", "d", ",", "\n", ")">>

\* 'x_tool = MCPTool(\n"'
OpenDecl == <<"x", "_", "t", "o", "o", "l", " ", "=", " ", "M", "C", "P", "T", "o", "o", "l", "(", "\n", "\"">>

\* '",\n'
CloseName == <<"\"", ",", "\n">>

\* 'a_b-c'
MixedName == <<"a", "_", "b", "-", "c">>

\* 'ls_tool = MCPTool(\n  "list-all-files",\n'
ListDecl == <<"l", "s", "_", "t", "o", "o", "l", " ", "=", " ", "M", "C", "P", "T", "o", "o", "l", "(", "\n", " ", " ", "\"", "l", "i", "s", "t", "-", "a", "l", "l", "-", "f", "i", "l", "e", "s", "\"", ",", "\n">>

\* '\nt=MCPTool(\n"n",\n  f\n'
TightDecl == <<"\n", "t", "=", "M", "C", "P", "T", "o", "o", "l", "(", "\n", "\"", "n", "\"", ",", "\n", " ", " ", "f", "\n">>

\* '\n  end,'
EndComma == <<"\n", " ", " ", "e", "n", "d", ",">>

\* '\n)'
NewParen == <<"\n", ")">>

DeclFrags == {FetchDecl, BodyLine, OpenDecl, CloseName, MixedName, ListDecl, TightDecl}

CloseTokens == {EndComma, NewParen, <<NL>>, <<" ">>, <<")">>, <<"x">>}

FileFrags == {FetchDecl, BodyLine, EndClose, ListDecl}

\* the concatenations of at most k fragments of F
RECURSIVE DocsOver(_, _)
DocsOver(F, k) ==
    IF k = 0 THEN {<<>>}
    ELSE LET P == DocsOver(F, k - 1) IN P \cup {x \o f : x \in P, f \in F}

(***************************************************************************)
(* The driver: the __main__ block and convert_file of                      *)
(* convert_mcprepl_tools.py, and main of convert_tools.py.                 *)
(***************************************************************************)
Paths == {"in.jl", "src/lsp.jl"}

DefaultPath == "src/lsp.jl"

\* a file is absent, readable only, or readable and writable
Modes == {"absent", "ro", "rw"}

Usage == <<"Usage: python convert_mcprepl_tools.py <filepath>">>

Confirmation(p) == <<"Converted", p>>

\* the path the run works on
filepath == IF argv # <<>> THEN argv[1] ELSE DefaultPath

Init ==
    /\ script \in Scripts
    /\ argv \in {<<>>, <<"in.jl">>}
    /\ \E m \in Modes :
         \E d \in (IF m = "absent" THEN {<<>>} ELSE DocsOver(FileFrags, MaxFrags)) :
            fs = [p \in Paths |-> [mode |-> m, text |-> d]]
    /\ pc = "start"
    /\ content = <<>>
    /\ converted = <<>>
    /\ stdout = <<>>
    /\ events = <<>>
    /\ texts = <<>>
    /\ passes = <<>>

\* convert_mcprepl_tools.py: `if len(sys.argv) > 1: ... else: print(Usage)`;
\* convert_tools.py: `sys.argv[1] if len(sys.argv) > 1 else 'src/lsp.jl'`
Main ==
    /\ pc = "start"
    /\ IF script = "convert_mcprepl_tools" /\ argv = <<>>
       THEN /\ stdout' = Append(stdout, Usage)
            /\ pc' = "done"
       ELSE /\ stdout' = stdout
            /\ pc' = "open_r"
    /\ UNCHANGED <<script, argv, fs, content, converted, events, texts, passes>>

\* with open(filepath, 'r') as f: content = f.read()
ReadFile ==
    /\ pc = "open_r"
    /\ fs[filepath].mode # "absent"
    /\ content' = fs[filepath].text
    /\ events' = Append(events, <<"read", filepath>>)
    /\ pc' = "sub1"
    /\ UNCHANGED <<script, argv, fs, converted, stdout, texts, passes>>

\* open(filepath, 'r') raises: the error propagates
ReadFail ==
    /\ pc = "open_r"
    /\ fs[filepath].mode = "absent"
    /\ events' = Append(events, <<"read_error", filepath>>)
    /\ pc' = "error"
    /\ UNCHANGED <<script, argv, fs, content, converted, stdout, texts, passes>>

\* converted = re.sub(pattern, replacer, content)
RewriteStep ==
    /\ pc = "sub1"
    /\ converted' = Rewriter(script, content)
    /\ events' = Append(events, <<"rewriter">>)
    /\ pc' = "sub2"
    /\ UNCHANGED <<script, argv, fs, content, stdout, texts, passes>>

\* converted = re.sub(<trailing comma>, ..., converted)
NormalizeStep ==
    /\ pc = "sub2"
    /\ converted' = Normalizer(script, converted)
    /\ events' = Append(events, <<"normalizer">>)
    /\ pc' = "open_w"
    /\ UNCHANGED <<script, argv, fs, content, stdout, texts, passes>>

\* mutant of WriteFile: the result goes to the default path, not the path read
WriteFileToDefault ==
    /\ pc = "open_w"
    /\ fs[DefaultPath].mode = "rw"
    /\ fs' = [fs EXCEPT ![DefaultPath].text = converted]
    /\ events' = Append(events, <<"write", filepath>>)
    /\ pc' = "print"
    /\ UNCHANGED <<script, argv, content, converted, stdout, texts, passes>>

\* with open(filepath, 'w') as f: f.write(converted)
WriteFile ==
    /\ pc = "open_w"
    /\ fs[filepath].mode = "rw"
    /\ fs' = [fs EXCEPT ![filepath].text = converted]
    /\ events' = Append(events, <<"write", filepath>>)
    /\ pc' = "print"
    /\ UNCHANGED <<script, argv, content, converted, stdout, texts, passes>>

\* open(filepath, 'w') raises: the error propagates
WriteFail ==
    /\ pc = "open_w"
    /\ fs[filepath].mode # "rw"
    /\ events' = Append(events, <<"write_error", filepath>>)
    /\ pc' = "error"
    /\ UNCHANGED <<script, argv, fs, content, converted, stdout, texts, passes>>

\* mutant of PrintConfirmation: silent when the passes changed nothing
PrintIfChanged ==
    /\ pc = "print"
    /\ stdout' = IF converted # content
                 THEN Append(stdout, Confirmation(filepath)) ELSE stdout
    /\ events' = Append(events, <<"print", filepath>>)
    /\ pc' = "done"
    /\ UNCHANGED <<script, argv, fs, content, converted, texts, passes>>

\* print(f"Converted {filepath}")
PrintConfirmation ==
    /\ pc = "print"
    /\ stdout' = Append(stdout, Confirmation(filepath))
    /\ events' = Append(events, <<"print", filepath>>)
    /\ pc' = "done"
    /\ UNCHANGED <<script, argv, fs, content, converted, texts, passes>>

Next ==
    \/ Main
    \/ ReadFile
    \/ ReadFail
    \/ RewriteStep
    \/ NormalizeStep
    \/ WriteFile
    \/ WriteFail
    \/ PrintConfirmation

Spec == Init /\ [][Next]_vars

(***************************************************************************)
(* The two passes as functions of a Document: each specification draws a   *)
(* Document and applies one pass to it, then again to the result.          *)
(***************************************************************************)
PassInit(D) ==
    /\ script \in Scripts
    /\ argv = <<>>
    /\ fs = [p \in Paths |-> [mode |-> "absent", text |-> <<>>]]
    /\ pc = "pass"
    /\ content = <<>>
    /\ converted = <<>>
    /\ stdout = <<>>
    /\ events = <<>>
    /\ \E d \in D : texts = <<d>>
    /\ passes = <<>>

\* the text the next pass is given
Current == texts[Len(texts)]

ApplyRewriter ==
    /\ pc = "pass"
    /\ Len(passes) < MaxPasses
    /\ texts' = Append(texts, Rewriter(script, Current))
    /\ passes' = Append(passes, "rewriter")
    /\ UNCHANGED <<script, argv, fs, pc, content, converted, stdout, events>>

ApplyNormalizer ==
    /\ pc = "pass"
    /\ Len(passes) < MaxPasses
    /\ texts' = Append(texts, Normalizer(script, Current))
    /\ passes' = Append(passes, "normalizer")
    /\ UNCHANGED <<script, argv, fs, pc, content, converted, stdout, events>>

RewriterInit == PassInit(DocsOver(DeclFrags, MaxFrags))

RewriterSpec == RewriterInit /\ [][ApplyRewriter]_vars

NormalizerInit == PassInit(DocsOver(CloseTokens, MaxTokens))

NormalizerSpec == NormalizerInit /\ [][ApplyNormalizer]_vars

(***************************************************************************)
(* Properties of the driver, checked under Spec.                           *)
(***************************************************************************)
\* d holds lit somewhere
Contains(d, lit) == \E i \in 1..Len(d) : HasAt(d, i, lit)

EndsWith(d, lit) == HasAt(d, Len(d) - Len(lit) + 1, lit)

\* a run that read a file: `content` is the Document it was given
HasRead == Len(events) >= 1 /\ events[1] = <<"read", filepath>>

\* the input of end-to-end scenario A
ScenarioA == FetchDecl \o BodyLine \o EndClose

\* 'tool = @mcp_tool(:fetch_data,'
ScenarioAOpening == <<"t", "o", "o", "l", " ", "=", " ", "@", "m", "c", "p", "_", "t", "o", "o", "l", "(", ":", "f", "e", "t", "c", "h", "_", "d", "a", "t", "a", ",">>

\* 'end\n)'
ScenarioAEnding == <<"e", "n", "d", "\n", ")">>

\* C1: a finished run of either script on scenario A's input leaves an output
\* that holds 'tool = @mcp_tool(:fetch_data,' followed by the preserved body
\* line and that ends in 'end\n)'.
C1_ScenarioA ==
    (pc = "done" /\ HasRead /\ content = ScenarioA) =>
        LET out == fs[filepath].text
        IN  /\ \E i \in 1..Len(out) :
                 /\ HasAt(out, i, ScenarioAOpening)
                 /\ \E j \in (i + Len(ScenarioAOpening))..Len(out) :
                        HasAt(out, j, BodyLine)
            /\ EndsWith(out, ScenarioAEnding)

\* C5 as stated: a finished run on a Document without 'MCPTool(' leaves the
\* file byte-identical and prints the confirmation.
C5_NoMCPToolIdentity ==
    (pc = "done" /\ HasRead /\ ~Contains(content, MCPToolLit)) =>
        /\ fs[filepath].text = content
        /\ stdout = <<Confirmation(filepath)>>

\* C5 amended: on a Document that holds neither 'MCPTool(' nor an occurrence
\* of the trailing-comma pattern, the two passes return the Document, and a
\* run that finishes leaves the file byte-identical and prints the
\* confirmation.
C5_NoMatchIdentity ==
    (/\ HasRead
     /\ ~Contains(content, MCPToolLit)
     /\ \A i \in 1..Len(content) : ~closing(content, i).ok) =>
        /\ Contains(events, << <<"rewriter">> >>) => converted = content
        /\ fs[filepath].text = content
        /\ pc = "done" => stdout = <<Confirmation(filepath)>>

\* a finished run on a non-empty Document with no 'MCPTool(' and no
\* trailing-comma occurrence, though it holds 'end,' before a parenthesis
C5_Witness ==
    /\ pc = "done" /\ HasRead
    /\ ~Contains(content, MCPToolLit)
    /\ \A i \in 1..Len(content) : ~closing(content, i).ok
    /\ Contains(content, EndClose)
    /\ stdout = <<Confirmation(filepath)>>

\* C9: started with no file-path argument, a script prints the usage message
\* and neither reads nor writes (nor tries to open) any file.
C9_UsageOnNoArgument ==
    argv = <<>> =>
        /\ events = <<>>
        /\ pc = "done" => stdout = <<Usage>>

\* the events of a run on path p that meets no error
FullRun(p) ==
    << <<"read", p>>, <<"rewriter">>, <<"normalizer">>, <<"write", p>>, <<"print", p>> >>

IsPrefix(a, b) == Len(a) <= Len(b) /\ SubSeq(b, 1, Len(a)) = a

\* C10: in a run given a file path, the events are, in this order and each at
\* most once: read, Rewriter, Normalizer, write to the path read, print naming
\* that path.  The file is not written before both passes are done, the
\* confirmation is printed only after the write succeeded, and a failed read
\* ends the run with no write and nothing printed.
C10_DriverOrder ==
    argv # <<>> =>
        LET p == argv[1]
            full == FullRun(p)
        IN  /\ \/ IsPrefix(events, full)
               \/ events = << <<"read_error", p>> >>
               \/ events = SubSeq(full, 1, 3) \o << <<"write_error", p>> >>
            \* before the write the files hold what was read
            /\ (HasRead /\ ~Contains(events, << <<"write", p>> >>)) =>
                   \A q \in Paths : fs[q].text = content
            \* the write stores the Normalizer's result of the Rewriter's output
            /\ Contains(events, << <<"write", p>> >>) =>
                   /\ converted = Normalizer(script, Rewriter(script, content))
                   /\ fs[p].text = converted
                   /\ \A q \in Paths \ {p} : fs[q].text = content
            \* the confirmation follows the write and names the path
            /\ stdout # <<>> =>
                   /\ stdout = <<Confirmation(p)>>
                   /\ Contains(events, << <<"write", p>> >>)
            /\ pc = "done" => events = full
            \* a failed read: no write, nothing printed
            /\ Contains(events, << <<"read_error", p>> >>) =>
                   /\ pc = "error" /\ stdout = <<>>
                   /\ \A q \in Paths : fs[q].mode = "absent"

\* a run on a given path that wrote a changed Document and confirmed it
C10_Witness ==
    /\ argv # <<>>
    /\ pc = "done"
    /\ events = FullRun(argv[1])
    /\ converted # content
    /\ fs[argv[1]].text = converted

(***************************************************************************)
(* Properties of the Declaration Rewriter, checked under RewriterSpec.     *)
(***************************************************************************)
\* the start positions of the declaration pattern's matches in d
Starts(s, d) == {i \in 1..Len(d) : pattern(s, d, i).ok}

\* those of the start positions S that stand at the head of a word run
Heads(d, S) == {i \in S : i = 1 \/ d[i - 1] \notin WordChars}

\* position i lies inside the match that starts at j, after its first character
Covers(s, d, j, i) == j < i /\ i < pattern(s, d, j).end

\* L holds the leftmost non-overlapping matches among those that start at
\* the positions S: no member starts inside another, and every other match
\* starts inside a member
IsLeftmost(s, d, S, L) ==
    /\ L \subseteq S
    /\ \A i \in L : ~\E j \in L : Covers(s, d, j, i)
    /\ \A i \in S \ L : \E j \in L : Covers(s, d, j, i)

\* the macro opening that replaces the match at i
Opening(s, d, i) ==
    LET m == pattern(s, d, i)
    IN  m.var \o MacroOpen
          \o [k \in 1..Len(m.name) |-> IF m.name[k] = "-" THEN "_" ELSE m.name[k]]
          \o (IF s = "convert_mcprepl_tools" THEN FileTail ELSE ToolTail)

\* d from position `from` on, the matches of L replaced by their openings
RECURSIVE Splice(_, _, _, _)
Splice(s, d, L, from) ==
    IF L = {} THEN SubSeq(d, from, Len(d))
    ELSE LET i == Least(L)
         IN  SubSeq(d, from, i - 1) \o Opening(s, d, i)
                 \o Splice(s, d, L \ {i}, pattern(s, d, i).end)

\* C2: each application of the Rewriter returns its input with the leftmost
\* non-overlapping matches replaced by their macro openings and every other
\* character kept in place; an input with no match is returned unchanged.
C2_RewriterFrame ==
    \A k \in 1..(Len(texts) - 1) :
        LET d == texts[k]
            out == texts[k + 1]
            S == Starts(script, d)
        IN  /\ \E L \in SUBSET Heads(d, S) :
                  /\ IsLeftmost(script, d, S, L)
                  /\ out = Splice(script, d, L, 1)
            /\ S = {} => out = d

\* the Rewriter ran on a Document with two matches, text before the first,
\* between them and after the second
C2_Witness ==
    /\ Len(texts) >= 2
    /\ \E i, j \in Starts(script, texts[1]) :
          /\ 1 < i
          /\ pattern(script, texts[1], i).end < j
          /\ pattern(script, texts[1], j).end <= Len(texts[1])
          /\ IsLeftmost(script, texts[1], Starts(script, texts[1]), {i, j})
    /\ texts[2] # texts[1]

\* the shape of a declaration opening at i, item by item: a binding name of
\* word characters, optional whitespace, '=', optional whitespace, 'MCPTool(',
\* whitespace with a line break, a quoted name without inner quotes, a comma,
\* whitespace with a line break
DeclarationShapeAt(d, i) ==
    \E a \in (i + 1)..Len(d) :
        /\ \A k \in i..(a - 1) : d[k] \in WordChars
        /\ d[a] \notin WordChars
        /\ LET b == RunEnd(d, a, SpaceChars)
               c == RunEnd(d, b + 1, SpaceChars)
               o == c + Len(MCPToolLit)
               q == RunEnd(d, o, SpaceChars)
               r == RunEndNot(d, q + 1, Quote)
           IN  /\ b <= Len(d) /\ d[b] = "="
               /\ HasAt(d, c, MCPToolLit)
               /\ \E k \in o..(q - 1) : d[k] = NL
               /\ q <= Len(d) /\ d[q] = Quote
               /\ r > q + 1 /\ r < Len(d)
               /\ d[r + 1] = ","
               /\ \E k \in (r + 2)..(RunEnd(d, r + 2, SpaceChars) - 1) : d[k] = NL

\* C3: each script's pattern matches at every declaration opening of the
\* specified shape, whatever the binding name and the spacing around '='.
C3_RecognizesShape ==
    Len(texts) >= 1 =>
        \A i \in 1..Len(texts[1]) :
            (/\ i = 1 \/ texts[1][i - 1] \notin WordChars
             /\ DeclarationShapeAt(texts[1], i))
                => pattern(script, texts[1], i).ok

\* the number of positions of x that hold c
Count(x, c) == Cardinality({k \in 1..Len(x) : x[k] = c})

\* the sum of f over the set S
RECURSIVE Sum(_, _)
Sum(f, S) ==
    IF S = {} THEN 0
    ELSE LET i == CHOOSE k \in S : TRUE IN f[i] + Sum(f, S \ {i})

\* the leftmost non-overlapping matches of d
Chosen(s, d) ==
    LET S == Starts(s, d)
    IN  CHOOSE L \in SUBSET Heads(d, S) : IsLeftmost(s, d, S, L)

\* where the opening of the match at i starts in the Rewriter's output, L
\* being the matches the Rewriter replaced
OutPos(s, d, L, i) ==
    LET B == {j \in L : j < i}
        grow == [j \in B |-> Len(Opening(s, d, j)) - (pattern(s, d, j).end - j)]
    IN  i + Sum(grow, B)

\* the symbol the output holds after '@mcp_tool(:' for the match at i
SymbolAt(s, d, out, L, i) ==
    LET m == pattern(s, d, i)
        at == OutPos(s, d, L, i) + Len(m.var) + Len(MacroOpen)
    IN  SubSeq(out, at, at + Len(m.name) - 1)

\* the output holds 'var = @mcp_tool(:' at the place of the match at i and a
\* comma after the symbol
OpeningAt(s, d, out, L, i) ==
    LET m == pattern(s, d, i)
        o == OutPos(s, d, L, i)
    IN  /\ HasAt(out, o, m.var \o MacroOpen)
        /\ HasAt(out, o + Len(m.var) + Len(MacroOpen) + Len(m.name), <<",">>)

\* C6 as stated: the derived symbol of every rewritten declaration has the
\* Declared name's length, exactly k underscores where the name has k
\* hyphens, at the hyphens' positions, no hyphen, and the name's character
\* at every other position.
C6_ExactlyKUnderscores ==
    \A n \in 1..(Len(texts) - 1) :
        LET L == Chosen(script, texts[n])
        IN  \A i \in L :
            LET name == pattern(script, texts[n], i).name
                sym == SymbolAt(script, texts[n], texts[n + 1], L, i)
            IN  /\ OpeningAt(script, texts[n], texts[n + 1], L, i)
                /\ Len(sym) = Len(name)
                /\ Count(sym, "_") = Count(name, "-")
                /\ Count(sym, "-") = 0
                /\ \A k \in 1..Len(name) :
                       sym[k] = IF name[k] = "-" THEN "_" ELSE name[k]

\* C6 amended: the derived symbol has the Declared name's length, an
\* underscore at every position where the name has a hyphen, no hyphen, and
\* the name's character at every other position; so it has k underscores
\* more than the name has, where k is the number of hyphens of the name.
C6_SymbolDerivation ==
    \A n \in 1..(Len(texts) - 1) :
        LET L == Chosen(script, texts[n])
        IN  \A i \in L :
            LET name == pattern(script, texts[n], i).name
                sym == SymbolAt(script, texts[n], texts[n + 1], L, i)
            IN  /\ OpeningAt(script, texts[n], texts[n + 1], L, i)
                /\ Len(sym) = Len(name)
                /\ Count(sym, "_") = Count(name, "-") + Count(name, "_")
                /\ Count(sym, "-") = 0
                /\ \A k \in 1..Len(name) :
                       sym[k] = IF name[k] = "-" THEN "_" ELSE name[k]

\* the Rewriter rewrote a declaration whose name has two hyphens, after
\* another declaration
C6_Witness ==
    /\ Len(texts) >= 2
    /\ LET L == Chosen(script, texts[1])
       IN  \E i \in L :
             /\ Count(pattern(script, texts[1], i).name, "-") = 2
             /\ OutPos(script, texts[1], L, i) # i
             /\ Count(SymbolAt(script, texts[1], texts[2], L, i), "_") = 2

\* C7: the Rewriter's pattern has no match in the Rewriter's output, and a
\* second application returns its input.
C7_NonReentrant ==
    \A k \in 2..Len(texts) :
        /\ Starts(script, texts[k]) = {}
        /\ k < Len(texts) => texts[k + 1] = texts[k]

(***************************************************************************)
(* Properties of the Trailing-Comma Normalizer, checked under              *)
(* NormalizerSpec.                                                         *)
(***************************************************************************)
\* the start positions of the trailing-comma pattern's matches in d
Closings(d) == {i \in 1..Len(d) : closing(d, i).ok}

\* the positions of the commas of those occurrences
ClosingCommas(d) == {closing(d, i).comma : i \in Closings(d)}

\* d without the characters at the positions of P
Without(d, P) ==
    LET kept == (1..Len(d)) \ P
    IN  [k \in 1..Cardinality(kept) |->
            d[CHOOSE p \in kept : Cardinality({q \in kept : q <= p}) = k]]

\* C4: the Normalizer's output is its input without the comma of each
\* occurrence of newline, indentation, 'end', ',', whitespace with a line
\* break, ')': no other character is added, removed or changed.
C4_OnlyCommaRemoved ==
    \A k \in 1..(Len(texts) - 1) :
        texts[k + 1] = Without(texts[k], ClosingCommas(texts[k]))

\* C8: a second application of the Normalizer returns its input, and the
\* output of an application holds no occurrence of the trailing-comma
\* pattern.
C8_NormalizerIdempotent ==
    \A k \in 2..Len(texts) :
        /\ Closings(texts[k]) = {}
        /\ k < Len(texts) => texts[k + 1] = texts[k]

\* the Normalizer ran twice on a Document that its first run changed
C8_Witness ==
    /\ Len(texts) >= 3
    /\ passes[1] = "normalizer" /\ passes[2] = "normalizer"
    /\ Closings(texts[1]) # {}
    /\ texts[2] # texts[1]
    /\ texts[3] = texts[2]

=============================================================================
